---- MODULE Spec2Model ----
(***************************************************************************)
(* A model of the computed tables of the organoid analysis pipeline:       *)
(*   frame.ActiveTimeFrames.make   (src/src/workflow/pipeline/frame.py)    *)
(*   frame.PopulationBursts.make                                           *)
(*   frame.Coherence.make                                                  *)
(* Each make is a sequence of steps; a step is one iteration of a loop of  *)
(* the code (its reads, its checks and its inserts), so that the rows a    *)
(* make has inserted when it raises are visible in the state.              *)
(*                                                                         *)
(* Times are minutes (ActiveTimeFrames) or milliseconds (PopulationBursts) *)
(* counted as naturals; spike times are counted in samples.                *)
(*                                                                         *)
(* PopulationBursts.make: the smoothed population firing rate (the result  *)
(* of lines 247-266) is an input of the model, a sequence of rates, and    *)
(* the fetched spike records are a second input; the histogram and the two *)
(* smoothing kernels are not computed. The divisions of a float by a       *)
(* timedelta64 (lines 260, 264, 270) are read as the number of ms.         *)
(***************************************************************************)
EXTENDS Integers, Sequences, FiniteSets, TLC

\* ---------------------------------------------------------------- bounds
\* AnalysisBoundaries rows of the experiment under analysis
NumBoundaries == 2
\* distinct minute windows a selected frame can cover
NumWindows == 2
\* frames selected for one key (num_frames of TimeFrameParamset, scaled)
MaxFrames == 2

\* keys of frame.Coherence to populate
NumCoherenceKeys == 2
\* largest NumElectrodesInside.num_electrodes (32 in the lookup table, scaled)
MaxElectrodes == 3

\* samples of the smoothed population firing rate of a frame (one per ms)
SignalLength == 8
\* num_burst_samples, the half-window of a burst in ms (1000 in the code, scaled)
num_burst_samples == 3
\* min_distance_ms of BurstDetectionParamset (1000.0 in the lookup, scaled)
min_distance_ms == 2
\* spike records fetched for a frame
MaxSpikes == 1
\* largest NumElectrodesInside.num_electrodes of a frame's organoid (scaled)
MaxElecInside == 2

\* minutes of the population firing vector of an analysis boundary
VectorLength == 8
\* longest array given to array_generator
MaxArrayLength == 4
\* largest chunk_size given to array_generator
MaxChunkSize == 3
\* largest min_per_frame of TimeFrameParamset (5 and 15 in the lookup, scaled)
MaxPerFrame == 3

\* minutes in which the rows of mua.MUASpikes.Channel can start
TimelineMinutes == 4
\* rows of mua.MUASpikes.Channel fetched for an analysis boundary
MaxRecords == 3

VARIABLES
    \* ---- ActiveTimeFrames.make
    EphysSession,        \* table ephys.EphysSession
    EphysSessionProbe,   \* table ephys.EphysSessionProbe
    ActiveTimeFrames,    \* table frame.ActiveTimeFrames
    atf_status,          \* per key: "todo", "running", "done", "failed"
    atf_error,           \* per key: the error make raised, or "none"
    make_key,            \* the key of the latest call of make, or NoKey
    frame_bounds,        \* of that call: the selected frames, in loop order
    frame_pos,           \* of that call: position of the loop over frame_bounds
    probes_at_start,     \* of that call: EphysSessionProbe & key when it began
    session_inserts,     \* of that call: the EphysSession rows it has added
    initial_probe,       \* EphysSessionProbe before any make ran
    \* ---- Coherence.make
    Coherence,           \* table frame.Coherence (master)
    Connectivity,        \* part table Coherence.Connectivity
    Synchrony,           \* part table Coherence.Synchrony
    coh_status,          \* per key: "todo", "running", "done", "failed"
    coh_error,           \* per key: the error make raised, or "none"
    coh_key,             \* the key of the latest call of make, or 0
    num_elec_inside,     \* per key: NumElectrodesInside of the key's organoid
    coh_loop,            \* of that call: "connectivity", "synchrony", "master"
    electrode_A,         \* of that call: loop variables of the connectivity loops
    electrode_B,
    elec,                \* of that call: loop variables of the synchrony loops
    band,
    \* ---- PopulationBursts.make (one call)
    population_firing_rate, \* the smoothed rate (line 266), one sample per ms
    spikes,              \* the fetched spike records: [time, electrode], the time
                         \* in samples from the frame start
    elec_inside,         \* num_elec_inside of the frame's organoid
    PopulationBursts,    \* table frame.PopulationBursts
    burst_status,        \* "todo", "running", "done", "failed"
    burst_error,         \* the error make raised, or "none"
    burst_indices,       \* after the boundary filter (line 283)
    burst_peak_heights,  \* after the boundary filter (line 284)
    burst_pos,           \* bursts the loop of line 289 has gone through
    waveform,            \* of the latest iteration (line 292)
    burst_windows,       \* line 308
    burst_spike_array,   \* the cells that are True: <<row, electrode, offset>>
    raster_writes        \* the assignments of line 321 so far: the burst, the
                         \* row used, the electrode and the offsets

atf_vars == <<EphysSession, EphysSessionProbe, ActiveTimeFrames, atf_status,
              atf_error, make_key, frame_bounds, frame_pos, probes_at_start,
              session_inserts, initial_probe>>

coh_vars == <<Coherence, Connectivity, Synchrony, coh_status, coh_error, coh_key,
              num_elec_inside, coh_loop, electrode_A, electrode_B, elec, band>>

burst_vars == <<population_firing_rate, spikes, elec_inside, PopulationBursts,
                burst_status, burst_error, burst_indices, burst_peak_heights,
                burst_pos, waveform, burst_windows, burst_spike_array, raster_writes>>

VARIABLES
    \* ---- ActiveTimeFrames.make, lines 103-156: the selection of the frames
    records,             \* the fetched mua.MUASpikes.Channel rows:
                         \* [start_time, electrode, spike_rate]
    frame_elec_inside,   \* num_elec_inside of the organoid
    min_per_frame,       \* TimeFrameParamset.min_per_frame
    num_frames,          \* TimeFrameParamset.num_frames
    first_minute,        \* time_vector[0]
    population_firing_vector, \* line 130: one entry per minute of time_vector
    smoothed_vector,     \* line 134, every entry times Factorial(min_per_frame)
    frame_indices,       \* line 143
    frame_amplitudes,    \* line 144 (entries of smoothed_vector)
    peak_indices,        \* line 148, positions in frame_indices counted from 0
    selected_bounds,     \* line 149: <<p - min_per_frame, p>> per selected peak
    frame_times,         \* line 155: <<start_time, end_time>> per frame so far
    sel_status,          \* "records", "vector", "smoothed", "peaks",
                         \* "selected", "done", "failed"
    sel_error            \* the error raised, or "none"

sel_vars == <<records, frame_elec_inside, min_per_frame, num_frames, first_minute,
              population_firing_vector, smoothed_vector, frame_indices,
              frame_amplitudes, peak_indices, selected_bounds, frame_times,
              sel_status, sel_error>>

\* the variables of the first three makes, and of the rest of the model
core_vars == <<atf_vars, coh_vars, burst_vars>>

VARIABLES
    \* ---- analysis.LFPSpectrogram.make (one call)
    LFPSpectrogram,      \* table analysis.LFPSpectrogram (the master)
    ChannelSpectrogram,  \* part table
    ChannelPower,        \* part table
    lfp_key,             \* the key of the call: the trace and the parameter set
    frequency,           \* the Fourier frequencies of the spectrogram (line 91)
    lfp_status,          \* "todo", "master", "bands", "done", "failed"
    lfp_error,           \* the error raised, or "none"
    lfp_band             \* position of the loop of line 105 in SpectralBand

lfp_vars == <<LFPSpectrogram, ChannelSpectrogram, ChannelPower, lfp_key,
              frequency, lfp_status, lfp_error, lfp_band>>

VARIABLES
    \* ---- workflow.utils.helpers.array_generator (one generator object)
    gen_arr,             \* arr, the 1-d array
    chunk_size,
    start_ind,
    end_ind,
    chunks,              \* the arrays yielded so far, in yield order
    gen_status           \* "created", "suspended" (at the yield), "exhausted"

gen_vars == <<gen_arr, chunk_size, start_ind, end_ind, chunks, gen_status>>

VARIABLES
    \* ---- helpers.get_channel_to_electrode_map (one call)
    map_port_id,         \* port_id: None or a string
    channel_to_electrode_map, \* the dict being built: its items in insertion order
    map_index,           \* the position of enumerate(electrode_to_row)
    map_result,          \* the dict returned: its items in iteration order
    map_status,          \* "called", "building", "built", "returned", "raised"
    map_error

map_vars == <<map_port_id, channel_to_electrode_map, map_index, map_result,
              map_status, map_error>>

more_vars == <<sel_vars, lfp_vars, gen_vars, map_vars>>

vars == <<core_vars, more_vars>>

\* ------------------------------------------------- ActiveTimeFrames: data

\* culture.Experiment: the experiment whose boundaries are analysed, and
\* another one, whose sessions share the ephys tables
Experiments == {"exp1", "exp2"}

\* primary key of frame.AnalysisBoundaries (the key handed to make)
AnalysisBoundaries == [experiment : {"exp1"}, boundary : 1..NumBoundaries]

Ports == {"A", "B"}

\* A frame of frame_bounds with the timestamps line 155 finds for it.
\* observed: np.unique(...) of the two boundary minutes holds exactly two
\* timestamps, so that the unpacking into start_time, end_time succeeds.
FrameChoices ==
    [start_time : 1..NumWindows, end_time : 2..(NumWindows + 1), observed : BOOLEAN]

IsFrame(f) == f.end_time = f.start_time + 1

\* frame_bounds of one key: frames of distinct peaks, so distinct windows
FrameBoundsChoices ==
    { fb \in UNION { [1..n -> FrameChoices] : n \in 0..MaxFrames } :
        /\ \A i \in DOMAIN fb : IsFrame(fb[i])
        /\ \A i, j \in DOMAIN fb : i # j => fb[i].start_time # fb[j].start_time }

\* The sessions an experiment can have before any frame is computed: the
\* whole recording, or a session that happens to span the first window.
InitialSessions ==
    { [start_time |-> 0, end_time |-> NumWindows + 1],
      [start_time |-> 1, end_time |-> 2] }

ProbeRow(e, s, port) ==
    [experiment |-> e, insertion_number |-> 0, start_time |-> s.start_time,
     end_time |-> s.end_time, probe |-> "probe1", port_id |-> port]

SessionRow(e, s) ==
    [experiment |-> e, insertion_number |-> 0, start_time |-> s.start_time,
     end_time |-> s.end_time, session_type |-> "lfp"]

\* primary key of EphysSession and of EphysSessionProbe
SessionKey(r) == <<r.experiment, r.insertion_number, r.start_time, r.end_time>>

UniqueKeys(table) == \A r, s \in table : SessionKey(r) = SessionKey(s) => r = s

\* EphysSessionProbe before any frame is computed: any sessions of the
\* analysed experiment, and one session of the other experiment
InitialProbeTables ==
    { t \cup { ProbeRow("exp2", [start_time |-> 0, end_time |-> NumWindows + 1], "B") } :
        t \in { u \in SUBSET { ProbeRow("exp1", s, p) : s \in InitialSessions, p \in Ports } :
                  UniqueKeys(u) } }

\* table & key: the rows that agree with key on the shared attributes
\* (organoid_id, experiment_start_time)
Restrict(table, key) == { r \in table : r.experiment = key.experiment }

\* insert1(row, skip_duplicates=True)
Insert1SkipDuplicates(table, row) ==
    IF \E r \in table : SessionKey(r) = SessionKey(row) THEN table ELSE table \cup {row}

FrameRow(key, f) == [key |-> key, start_time |-> f.start_time, end_time |-> f.end_time]

\* ------------------------------------------------------- Coherence: data

CoherenceKeys == 1..NumCoherenceKeys

\* Coherence.make, lines 373-376
fs == 2500
max_freq == 200
tw == 1
nperseg == tw * fs

\* analysis.SpectralBand.contents, in fetch order
SpectralBand ==
    << "delta", "theta", "alpha", "beta", "gamma", "highgamma1", "highgamma2" >>

\* The frequencies scipy.signal.coherence(x, y, fs=fs, nperseg=nperseg)
\* returns: k * fs / nperseg for k = 0 .. nperseg / 2 (here whole Hz).
WelchFrequencies == [k \in 1..(nperseg \div 2 + 1) |-> ((k - 1) * fs) \div nperseg]

\* Cxy of one estimate: one value per Welch frequency; the value at
\* frequency f[k] is named by k, so that a record shows where it came from.
WelchCoherence == [k \in 1..Len(WelchFrequencies) |-> k]

\* arr[mask] of numpy for a boolean mask: the entries where mask holds, and
\* an IndexError when mask and arr differ in length
BooleanIndex(arr, mask) ==
    IF Len(mask) # Len(arr)
    THEN [error |-> "IndexError: boolean index did not match", value |-> <<>>]
    ELSE LET kept == SelectSeq([i \in 1..Len(arr) |-> i], LAMBDA i : mask[i])
         IN  [error |-> "none", value |-> [j \in 1..Len(kept) |-> arr[kept[j]]]]

\* f <= max_freq, elementwise
AtMostMaxFreq(f) == [i \in 1..Len(f) |-> f[i] <= max_freq]

\* lines 419-420 (and 457-458): f = f[f <= max_freq], then Cxy[f <= max_freq]
\* with the f just assigned
Truncate(f, Cxy) ==
    LET f2 == BooleanIndex(f, AtMostMaxFreq(f)).value
        c2 == BooleanIndex(Cxy, AtMostMaxFreq(f2))
    IN  [error |-> c2.error, f |-> f2, coherence |-> c2.value]

\* ------------------------------------------------------ scipy.signal, numpy

\* x[i] with the index counted from 0, as in the code
At(x, i) == x[i + 1]

Max(a, b) == IF a >= b THEN a ELSE b
Min(a, b) == IF a <= b THEN a ELSE b

\* x[a:b] of Python: a negative bound counts from the end, and both are
\* clipped to the sequence
PySlice(x, a, b) ==
    LET lo == IF a < 0 THEN Max(a + Len(x), 0) ELSE Min(a, Len(x))
        hi == IF b < 0 THEN Max(b + Len(x), 0) ELSE Min(b, Len(x))
    IN  [k \in 1..Max(hi - lo, 0) |-> x[lo + k]]

\* scipy _local_maxima_1d: the first index from j on whose sample differs
\* from x[i], or the last index
RECURSIVE LookAhead(_, _, _)
LookAhead(x, i, j) ==
    IF j < Len(x) - 1 /\ At(x, j) = At(x, i) THEN LookAhead(x, i, j + 1) ELSE j

\* scipy _local_maxima_1d from index i on: the midpoints of the plateaus
\* that rise on the left and fall on the right; never the first or last sample
RECURSIVE LocalMaximaFrom(_, _)
LocalMaximaFrom(x, i) ==
    IF i >= Len(x) - 1 THEN <<>>
    ELSE IF At(x, i - 1) < At(x, i)
         THEN LET ahead == LookAhead(x, i, i + 1)
              IN  IF At(x, ahead) < At(x, i)
                  THEN <<(i + ahead - 1) \div 2>> \o LocalMaximaFrom(x, ahead + 1)
                  ELSE LocalMaximaFrom(x, i + 1)
         ELSE LocalMaximaFrom(x, i + 1)

\* scipy _select_by_peak_distance without the distance condition
SelectByPeakDistance_None(x, peaks, distance, todo, keep) == keep

\* scipy _select_by_peak_distance: the positions (in peaks) that are kept.
\* Peaks are gone through by decreasing height (among equal heights the later
\* peak first, the reversed stable argsort); a kept peak removes every other
\* peak closer than distance.
RECURSIVE SelectByPeakDistance(_, _, _, _, _)
SelectByPeakDistance(x, peaks, distance, todo, keep) ==
    IF todo = {} THEN keep
    ELSE LET j == CHOOSE a \in todo : \A b \in todo :
                      \/ At(x, peaks[a]) > At(x, peaks[b])
                      \/ At(x, peaks[a]) = At(x, peaks[b]) /\ a >= b
         IN  IF j \notin keep
             THEN SelectByPeakDistance(x, peaks, distance, todo \ {j}, keep)
             ELSE SelectByPeakDistance(
                      x, peaks, distance, todo \ {j},
                      keep \ { k \in keep : k # j /\ peaks[k] - peaks[j] < distance
                                                  /\ peaks[j] - peaks[k] < distance })

\* the entries of seq at the positions of keep, in order
KeepPositions(seq, keep) ==
    LET kept == SelectSeq([k \in 1..Len(seq) |-> k], LAMBDA k : k \in keep)
    IN  [k \in 1..Len(kept) |-> seq[kept[k]]]

\* find_peaks(x, height=..., distance=distance): the local maxima that pass
\* the height condition tall(v), then the distance condition
FindPeaks(x, tall(_), distance) ==
    LET maxima == LocalMaximaFrom(x, 1)
        high == SelectSeq(maxima, LAMBDA q : tall(At(x, q)))
    IN  KeepPositions(high, SelectByPeakDistance(x, high, distance, DOMAIN high, DOMAIN high))

RECURSIVE SumSeq(_)
SumSeq(x) == IF x = <<>> THEN 0 ELSE Head(x) + SumSeq(Tail(x))

\* v >= factor * np.std(x) for v >= 0, in integers:
\* std(x)^2 = (n * sum(x^2) - sum(x)^2) / n^2
AtLeastStd(v, factor, x) ==
    LET n == Len(x)
        sq == [k \in 1..n |-> x[k] * x[k]]
    IN  v * v * n * n >= factor * factor * (n * SumSeq(sq) - SumSeq(x) * SumSeq(x))

\* ------------------------------------------------ PopulationBursts: data

\* BurstDetectionParamset.contents: detection_threshold
detection_threshold == 2

\* fs of PopulationBursts.make (line 224), in Hz
burst_fs == 20000

\* spike_idx counts samples: spike_idx / fs / 0.001 is the time in ms
\* (line 239), so a time of t samples stands for t / samples_per_ms ms
samples_per_ms == burst_fs \div 1000

\* burst_bound_thresh = 0.1 (line 226), as the ratio 1 / 10
burst_bound_thresh_den == 10

\* values of the smoothed rate: silence, a tenth of a burst peak, a burst peak
RateValues == {0, 2, 20}

\* spike times, in samples from the frame start up to the frame end: the
\* first and the last sample of every ms
SpikeTimes ==
    { t \in 0..(SignalLength * samples_per_ms) :
          t % samples_per_ms \in {0, samples_per_ms - 1} }

SpikeChoices ==
    UNION { [1..n -> [time : SpikeTimes, electrode : 0..MaxElecInside]] : n \in 0..MaxSpikes }

\* lines 242-245: the spike times of the electrodes inside the organoid
spike_times_ms ==
    LET inside == SelectSeq(spikes, LAMBDA sp : sp.electrode < elec_inside)
    IN  [k \in 1..Len(inside) |-> inside[k].time]

\* line 235: the electrode of every fetched spike record
electrode_ids == [k \in 1..Len(spikes) |-> spikes[k].electrode]

\* line 282
boundary_bool_NoUpperBound(index, length) == num_burst_samples <= index

boundary_bool(index, length) ==
    num_burst_samples <= index /\ index <= length - num_burst_samples

\* v >= burst_bound_thresh * height
OverThreshold_Strict(v, height) == v * burst_bound_thresh_den > height

OverThreshold(v, height) == v * burst_bound_thresh_den >= height

\* lines 299-302: the value of i when the walk to the left stops, or -1 when
\* the walk reads past the end of wf
RECURSIVE WalkLeft(_, _, _)
WalkLeft(wf, height, i) ==
    IF num_burst_samples - i >= Len(wf) THEN -1
    ELSE IF OverThreshold(At(wf, num_burst_samples - i), height) /\ num_burst_samples - i > 0
         THEN WalkLeft(wf, height, i + 1)
         ELSE i

\* lines 303-306: the same to the right
RECURSIVE WalkRight(_, _, _)
WalkRight(wf, height, i) ==
    IF num_burst_samples + i >= Len(wf) THEN -1
    ELSE IF /\ OverThreshold(At(wf, num_burst_samples + i), height)
            /\ num_burst_samples + i < Len(wf) - 1
         THEN WalkRight(wf, height, i + 1)
         ELSE i

\* ------------------------------------------- ActiveTimeFrames.make: steps

\* lines 163-172: the two checks on EphysSessionProbe & key
ProbeLookupError_NoEmptyCheck(rows) ==
    IF Cardinality(rows) > 1 THEN "ValueError: Multiple Port IDs found" ELSE "none"

ProbeLookupError(rows) ==
    IF rows = {} THEN "ValueError: No EphysSessionProbe found"
    ELSE IF Cardinality(rows) > 1 THEN "ValueError: Multiple Port IDs found"
    ELSE "none"

\* One iteration of the loop over frame_bounds (lines 152-203) on the tables
\* db = [session, probe, frames]; the result adds the error raised, if any.
\* Line 160 is read as what lines 173-174 need: port_id and probe are the
\* sets of the port ids and of the probes of EphysSessionProbe & key.
FrameIteration(key, f, db) ==
    LET rows == Restrict(db.probe, key)
        port_id == { r.port_id : r \in rows }
        probe == { r.probe : r \in rows }
        fail(e) == [session |-> db.session, probe |-> db.probe,
                    frames |-> db.frames, error |-> e]
    IN  IF ~f.observed THEN fail("ValueError: start_time, end_time unpack")
        ELSE IF ProbeLookupError(rows) # "none" THEN fail(ProbeLookupError(rows))
        ELSE IF port_id = {} \/ probe = {} THEN fail("KeyError: pop from an empty set")
        ELSE LET s == [start_time |-> f.start_time, end_time |-> f.end_time]
                 session2 == Insert1SkipDuplicates(db.session, SessionRow(key.experiment, s))
                 probe2 == Insert1SkipDuplicates(
                               db.probe,
                               [ProbeRow(key.experiment, s, CHOOSE p \in port_id : TRUE)
                                   EXCEPT !.probe = CHOOSE p \in probe : TRUE])
             IN  IF \E r \in db.frames : r.key = key /\ r.start_time = f.start_time
                                          /\ r.end_time = f.end_time
                 THEN [session |-> session2, probe |-> probe2, frames |-> db.frames,
                       error |-> "DuplicateError"]
                 ELSE [session |-> session2, probe |-> probe2,
                       frames |-> db.frames \cup {FrameRow(key, f)}, error |-> "none"]

\* make(key) run from its first frame to its end on the tables db, with no
\* other make in between: the frames it emits and the error it ends with
RECURSIVE MakeFrom(_, _, _, _)
MakeFrom(key, fb, pos, db) ==
    IF pos > Len(fb) THEN [frames |-> db.frames, error |-> "none"]
    ELSE LET out == FrameIteration(key, fb[pos], db)
         IN  IF out.error # "none" THEN [frames |-> out.frames, error |-> out.error]
             ELSE MakeFrom(key, fb, pos + 1,
                           [session |-> out.session, probe |-> out.probe,
                            frames |-> out.frames])

NoKey == [experiment |-> "none", boundary |-> 0]

\* lines 104-149: make is called for a key not yet computed, once the call
\* before it has ended, and selects its frames (the selection is an input)
Select(key) ==
    /\ atf_status[key] = "todo"
    /\ make_key # NoKey => atf_status[make_key] \in {"done", "failed"}
    /\ make_key' = key
    /\ \E fb \in FrameBoundsChoices : frame_bounds' = fb
    /\ atf_status' = [atf_status EXCEPT ![key] = "running"]
    /\ frame_pos' = 1
    /\ probes_at_start' = Restrict(EphysSessionProbe, key)
    /\ session_inserts' = {}
    /\ UNCHANGED <<EphysSession, EphysSessionProbe, ActiveTimeFrames, atf_error,
                   initial_probe>>
    /\ UNCHANGED <<coh_vars, burst_vars, more_vars>>

\* lines 152-203: one frame
FrameStep(key) ==
    /\ key = make_key
    /\ atf_status[key] = "running"
    /\ frame_pos <= Len(frame_bounds)
    /\ LET out == FrameIteration(key, frame_bounds[frame_pos],
                                 [session |-> EphysSession, probe |-> EphysSessionProbe,
                                  frames |-> ActiveTimeFrames])
       IN  /\ EphysSession' = out.session
           /\ EphysSessionProbe' = out.probe
           /\ ActiveTimeFrames' = out.frames
           /\ session_inserts' = session_inserts \cup (out.session \ EphysSession)
           /\ IF out.error = "none"
              THEN /\ frame_pos' = frame_pos + 1
                   /\ UNCHANGED <<atf_status, atf_error>>
              ELSE /\ atf_status' = [atf_status EXCEPT ![key] = "failed"]
                   /\ atf_error' = [atf_error EXCEPT ![key] = out.error]
                   /\ UNCHANGED frame_pos
    /\ UNCHANGED <<make_key, frame_bounds, probes_at_start, initial_probe>>
    /\ UNCHANGED <<coh_vars, burst_vars, more_vars>>

\* the loop is exhausted: make returns
Return(key) ==
    /\ key = make_key
    /\ atf_status[key] = "running"
    /\ frame_pos > Len(frame_bounds)
    /\ atf_status' = [atf_status EXCEPT ![key] = "done"]
    /\ UNCHANGED <<EphysSession, EphysSessionProbe, ActiveTimeFrames, atf_error,
                   make_key, frame_bounds, frame_pos, probes_at_start,
                   session_inserts, initial_probe>>
    /\ UNCHANGED <<coh_vars, burst_vars, more_vars>>

\* ---------------------------------------------------- Coherence.make: steps

StartCoherence ==
    /\ Coherence = {}
    /\ Connectivity = {}
    /\ Synchrony = {}
    /\ coh_status = [k \in CoherenceKeys |-> "todo"]
    /\ coh_error = [k \in CoherenceKeys |-> "none"]
    /\ coh_key = 0
    /\ coh_loop = "none"
    /\ electrode_A = 0
    /\ electrode_B = 0
    /\ elec = 0
    /\ band = 1

CohRaise(key, e) ==
    /\ coh_status' = [coh_status EXCEPT ![key] = "failed"]
    /\ coh_error' = [coh_error EXCEPT ![key] = e]

\* the loop a make with n electrodes enters first
FirstLoop(n) == IF n > 0 THEN "connectivity" ELSE "master"

\* lines 372-397: make is called for a key not yet computed, once the call
\* before it has ended; the traces are fetched, ordered and filtered
CohBegin(key) ==
    /\ coh_status[key] = "todo"
    /\ coh_key # 0 => coh_status[coh_key] \in {"done", "failed"}
    /\ coh_key' = key
    /\ coh_status' = [coh_status EXCEPT ![key] = "running"]
    /\ coh_loop' = FirstLoop(num_elec_inside[key])
    /\ electrode_A' = 0
    /\ electrode_B' = 0
    /\ elec' = 0
    /\ band' = 1
    /\ UNCHANGED <<Coherence, Connectivity, Synchrony, coh_error, num_elec_inside>>
    /\ UNCHANGED <<atf_vars, burst_vars, more_vars>>

\* lines 404-429: one iteration of the inner connectivity loop
ConnectivityStep(key) ==
    /\ key = coh_key
    /\ coh_status[key] = "running"
    /\ coh_loop = "connectivity"
    /\ LET n == num_elec_inside[key]
           out == Truncate(WelchFrequencies, WelchCoherence)
           row == [key |-> key, electrode_A |-> electrode_A, electrode_B |-> electrode_B,
                   f |-> out.f, coherence |-> out.coherence]
           raised == IF electrode_A >= electrode_B THEN "none"
                     ELSE IF out.error # "none" THEN out.error
                     ELSE IF \E r \in Connectivity :
                                 /\ r.key = key
                                 /\ r.electrode_A = electrode_A
                                 /\ r.electrode_B = electrode_B
                          THEN "DuplicateError"
                     ELSE "none"
       IN  IF raised # "none"
           THEN /\ CohRaise(key, raised)
                /\ UNCHANGED <<Connectivity, coh_loop, electrode_A, electrode_B>>
           ELSE /\ Connectivity' = IF electrode_A >= electrode_B THEN Connectivity
                                   ELSE Connectivity \cup {row}
                /\ electrode_B' = IF electrode_B + 1 < n THEN electrode_B + 1 ELSE 0
                /\ electrode_A' = IF electrode_B + 1 < n THEN electrode_A ELSE electrode_A + 1
                /\ coh_loop' = IF electrode_B + 1 < n \/ electrode_A + 1 < n
                               THEN "connectivity" ELSE "synchrony"
                /\ UNCHANGED <<coh_status, coh_error>>
    /\ UNCHANGED <<Coherence, Synchrony, coh_key, num_elec_inside, elec, band>>
    /\ UNCHANGED <<atf_vars, burst_vars, more_vars>>

\* lines 436-467: one iteration of the inner synchrony loop
SynchronyStep(key) ==
    /\ key = coh_key
    /\ coh_status[key] = "running"
    /\ coh_loop = "synchrony"
    /\ LET n == num_elec_inside[key]
           out == Truncate(WelchFrequencies, WelchCoherence)
           row == [key |-> key, electrode |-> elec, band_name |-> SpectralBand[band],
                   f |-> out.f, synchrony |-> out.coherence]
           raised == IF out.error # "none" THEN out.error
                     ELSE IF \E r \in Synchrony :
                                 /\ r.key = key
                                 /\ r.electrode = elec
                                 /\ r.band_name = SpectralBand[band]
                          THEN "DuplicateError"
                     ELSE "none"
       IN  IF raised # "none"
           THEN /\ CohRaise(key, raised)
                /\ UNCHANGED <<Synchrony, coh_loop, elec, band>>
           ELSE /\ Synchrony' = Synchrony \cup {row}
                /\ band' = IF band < Len(SpectralBand) THEN band + 1 ELSE 1
                /\ elec' = IF band < Len(SpectralBand) THEN elec ELSE elec + 1
                /\ coh_loop' = IF band < Len(SpectralBand) \/ elec + 1 < n
                               THEN "synchrony" ELSE "master"
                /\ UNCHANGED <<coh_status, coh_error>>
    /\ UNCHANGED <<Coherence, Connectivity, coh_key, num_elec_inside,
                   electrode_A, electrode_B>>
    /\ UNCHANGED <<atf_vars, burst_vars, more_vars>>

\* line 470: the master row, and make returns
CohInsertMaster(key) ==
    /\ key = coh_key
    /\ coh_status[key] = "running"
    /\ coh_loop = "master"
    /\ Coherence' = Coherence \cup {key}
    /\ coh_status' = [coh_status EXCEPT ![key] = "done"]
    /\ UNCHANGED <<Connectivity, Synchrony, coh_error, coh_key, num_elec_inside,
                   coh_loop, electrode_A, electrode_B, elec, band>>
    /\ UNCHANGED <<atf_vars, burst_vars, more_vars>>

\* ------------------------------------------- PopulationBursts.make: steps

StartBursts ==
    /\ PopulationBursts = {}
    /\ burst_status = "todo"
    /\ burst_error = "none"
    /\ burst_indices = <<>>
    /\ burst_peak_heights = <<>>
    /\ burst_pos = 0
    /\ waveform = <<>>
    /\ burst_windows = <<>>
    /\ burst_spike_array = {}
    /\ raster_writes = {}

\* lines 269-273: the peaks of the smoothed rate
DetectedPeaks ==
    FindPeaks(population_firing_rate,
              LAMBDA v : AtLeastStd(v, detection_threshold, population_firing_rate),
              min_distance_ms)

\* lines 314-321 for one electrode: the offsets of its spikes in the burst
\* window, written into row `row` of a raster of num_bursts rows
ElectrodeFill(row, elec_idx, index, num_bursts) ==
    LET mask == [k \in 1..Len(electrode_ids) |-> electrode_ids[k] = elec_idx]
        elec_spike_times == BooleanIndex(spike_times_ms, mask)
        from == (index - num_burst_samples) * samples_per_ms
        upto == (index + num_burst_samples) * samples_per_ms
        burst_spike_times ==
            SelectSeq(elec_spike_times.value, LAMBDA t : from <= t /\ t <= upto)
        burst_spike_indices ==
            { (burst_spike_times[k] - from) \div samples_per_ms :
                  k \in 1..Len(burst_spike_times) }
    IN  IF elec_spike_times.error # "none"
        THEN [error |-> elec_spike_times.error, offsets |-> {}]
        ELSE IF row >= num_bursts
             THEN [error |-> "IndexError: index out of bounds for axis 0",
                   offsets |-> burst_spike_indices]
             ELSE IF \E o \in burst_spike_indices : o >= 2 * num_burst_samples
                  THEN [error |-> "IndexError: index out of bounds for axis 2",
                        offsets |-> burst_spike_indices]
                  ELSE [error |-> "none", offsets |-> burst_spike_indices]

\* lines 311-321 from electrode elec_idx on: the first error, the cells set
\* and the assignments made
RECURSIVE FillFrom(_, _, _, _, _)
FillFrom(elec_idx, burst, row, index, num_bursts) ==
    IF elec_idx >= elec_inside
    THEN [error |-> "none", cells |-> {}, writes |-> {}]
    ELSE LET fill == ElectrodeFill(row, elec_idx, index, num_bursts)
             write == [burst |-> burst, row |-> row, electrode |-> elec_idx,
                       offsets |-> fill.offsets]
         IN  IF fill.error # "none"
             THEN [error |-> fill.error, cells |-> {},
                   writes |-> IF fill.error = "IndexError: boolean index did not match"
                              THEN {} ELSE {write}]
             ELSE LET rest == FillFrom(elec_idx + 1, burst, row, index, num_bursts)
                  IN  [error |-> rest.error,
                       cells |-> { <<row, elec_idx, o>> : o \in fill.offsets } \cup rest.cells,
                       writes |-> {write} \cup rest.writes]

\* lines 223-288
BurstBegin ==
    /\ burst_status = "todo"
    /\ LET peaks == DetectedPeaks
           peak_heights == [k \in 1..Len(peaks) |-> At(population_firing_rate, peaks[k])]
           mask == [k \in 1..Len(peaks) |->
                       boundary_bool(peaks[k], Len(population_firing_rate))]
       IN  /\ burst_indices' = BooleanIndex(peaks, mask).value
           /\ burst_peak_heights' = BooleanIndex(peak_heights, mask).value
    /\ burst_status' = "running"
    /\ UNCHANGED <<population_firing_rate, spikes, elec_inside, PopulationBursts,
                   burst_error, burst_pos, waveform, burst_windows,
                   burst_spike_array, raster_writes>>
    /\ UNCHANGED <<atf_vars, coh_vars, more_vars>>

\* lines 289-321: one iteration of the loop over the bursts
BurstStep ==
    /\ burst_status = "running"
    /\ burst_pos < Len(burst_indices)
    /\ LET index == burst_indices[burst_pos + 1]
           height == burst_peak_heights[burst_pos + 1]
           wf == PySlice(population_firing_rate,
                         index - num_burst_samples, index + num_burst_samples)
           left == WalkLeft(wf, height, 1)
           i == IF left = -1 THEN -1 ELSE WalkRight(wf, height, 1)
           fill == FillFrom(0, burst_pos, i, index, Len(burst_indices))
       IN  /\ waveform' = wf
           /\ IF i = -1
              THEN /\ burst_status' = "failed"
                   /\ burst_error' = "IndexError: index out of bounds"
                   /\ UNCHANGED <<burst_windows, burst_spike_array, raster_writes>>
              ELSE /\ burst_windows' = Append(burst_windows, <<-(left - 1), i - 1>>)
                   /\ raster_writes' = raster_writes \cup fill.writes
                   /\ IF fill.error # "none"
                      THEN /\ burst_status' = "failed"
                           /\ burst_error' = fill.error
                           /\ UNCHANGED burst_spike_array
                      ELSE /\ burst_spike_array' = burst_spike_array \cup fill.cells
                           /\ UNCHANGED <<burst_status, burst_error>>
    /\ burst_pos' = burst_pos + 1
    /\ UNCHANGED <<population_firing_rate, spikes, elec_inside, PopulationBursts,
                   burst_indices, burst_peak_heights>>
    /\ UNCHANGED <<atf_vars, coh_vars, more_vars>>

\* lines 322-331
BurstInsert ==
    /\ burst_status = "running"
    /\ burst_pos = Len(burst_indices)
    /\ PopulationBursts' = PopulationBursts \cup
           {[burst_indices |-> burst_indices,
             burst_peak_heights |-> burst_peak_heights,
             burst_bounds |-> burst_windows,
             burst_spike_array |-> burst_spike_array]}
    /\ burst_status' = "done"
    /\ UNCHANGED <<population_firing_rate, spikes, elec_inside, burst_error,
                   burst_indices, burst_peak_heights, burst_pos, waveform,
                   burst_windows, burst_spike_array, raster_writes>>
    /\ UNCHANGED <<atf_vars, coh_vars, more_vars>>

\* ------------------------------- ActiveTimeFrames.make: frame selection

\* a start_time is counted in seconds; astype("datetime64[m]") is its minute
SecondsPerMinute == 60

MinuteOf(t) == t \div SecondsPerMinute

RECURSIVE Factorial(_)
Factorial(n) == IF n <= 1 THEN 1 ELSE n * Factorial(n - 1)

\* the elements of a set of numbers in increasing order (np.unique)
RECURSIVE Sorted(_)
Sorted(S) ==
    IF S = {} THEN <<>>
    ELSE LET least == CHOOSE a \in S : \A b \in S : a <= b
         IN  <<least>> \o Sorted(S \ {least})

\* np.sum(spike_rates[mask]) over a set of records
RECURSIVE SumRates(_)
SumRates(rs) ==
    IF rs = {} THEN 0
    ELSE LET r == CHOOSE r \in rs : TRUE
         IN  r.spike_rate + SumRates(rs \ {r})

\* lines 121-130: the loop over unique_start_times from position k on
RECURSIVE FillVector(_, _, _, _)
FillVector(vector, unique_start_times, k, first) ==
    IF k > Len(unique_start_times) THEN vector
    ELSE LET start_time == unique_start_times[k]
             summed == { r \in records : /\ r.start_time = start_time
                                         /\ r.electrode < frame_elec_inside }
             time_index == MinuteOf(start_time) - first
         IN  FillVector([vector EXCEPT ![time_index + 1] = SumRates(summed)],
                        unique_start_times, k + 1, first)

\* bn.move_mean(x, window=window, min_count=1), every entry multiplied by
\* Factorial(window): the mean of the last `window` entries, of fewer at
\* the start
MoveMean(x, window) ==
    [k \in 1..Len(x) |->
        LET count == Min(k, window)
        IN  SumSeq(SubSeq(x, k - count + 1, k)) * (Factorial(window) \div count)]

\* line 141
frame_boundary_bool_All(index, window) == TRUE

frame_boundary_bool(index, window) == window <= index

\* np.argsort(a): the orders of the positions of a (counted from 1) by
\* increasing value; equal values can come in any order
ArgSorts_Unsorted(a) ==
    { order \in [DOMAIN a -> DOMAIN a] :
          \A i, j \in DOMAIN a : i # j => order[i] # order[j] }

ArgSorts(a) ==
    { order \in [DOMAIN a -> DOMAIN a] :
        /\ \A i, j \in DOMAIN a : i # j => order[i] # order[j]
        /\ \A i, j \in DOMAIN a : i < j => a[order[i]] <= a[order[j]] }

\* order[-count:]
LastN(order, count) ==
    PySlice(order, -count, Len(order))

\* lines 155: the distinct start times in the two minutes of frame_idx
FrameStartTimes(frame_idx) ==
    Sorted({ r.start_time : r \in
               { r \in records :
                   MinuteOf(r.start_time) \in { first_minute + frame_idx[1],
                                                first_minute + frame_idx[2] } } })

StartSelector ==
    /\ first_minute = 0
    /\ smoothed_vector = <<>>
    /\ frame_indices = <<>>
    /\ frame_amplitudes = <<>>
    /\ peak_indices = <<>>
    /\ selected_bounds = <<>>
    /\ frame_times = <<>>
    /\ sel_error = "none"

IdleSelector ==
    /\ StartSelector
    /\ records = {}
    /\ frame_elec_inside = 0
    /\ min_per_frame = 1
    /\ num_frames = 0
    /\ population_firing_vector = <<>>
    /\ sel_status = "idle"

\* lines 113-130
BuildVector ==
    /\ sel_status = "records"
    /\ IF records = {}
       THEN /\ sel_status' = "failed"
            /\ sel_error' = "ValueError: min() of an empty sequence"
            /\ UNCHANGED <<first_minute, population_firing_vector>>
       ELSE LET unique_start_times == Sorted({ r.start_time : r \in records })
                first == MinuteOf(unique_start_times[1])
                last == MinuteOf(unique_start_times[Len(unique_start_times)])
                zeros == [k \in 1..(last - first + 1) |-> 0]
            IN  /\ first_minute' = first
                /\ population_firing_vector' =
                       FillVector(zeros, unique_start_times, 1, first)
                /\ sel_status' = "vector"
                /\ UNCHANGED sel_error
    /\ UNCHANGED <<records, frame_elec_inside, min_per_frame, num_frames,
                   smoothed_vector, frame_indices, frame_amplitudes,
                   peak_indices, selected_bounds, frame_times>>
    /\ UNCHANGED <<core_vars, lfp_vars, gen_vars, map_vars>>

\* lines 133-134
Smooth ==
    /\ sel_status = "vector"
    /\ smoothed_vector' = MoveMean(population_firing_vector, min_per_frame)
    /\ sel_status' = "smoothed"
    /\ UNCHANGED <<records, frame_elec_inside, min_per_frame, num_frames,
                   first_minute, population_firing_vector, frame_indices,
                   frame_amplitudes, peak_indices, selected_bounds, frame_times,
                   sel_error>>
    /\ UNCHANGED <<core_vars, lfp_vars, gen_vars, map_vars>>

\* lines 137-144
FindFrames ==
    /\ sel_status = "smoothed"
    /\ LET peaks == FindPeaks(smoothed_vector, LAMBDA v : v >= 0, min_per_frame)
           peak_heights == [k \in 1..Len(peaks) |-> At(smoothed_vector, peaks[k])]
           mask == [k \in 1..Len(peaks) |-> frame_boundary_bool(peaks[k], min_per_frame)]
       IN  /\ frame_indices' = BooleanIndex(peaks, mask).value
           /\ frame_amplitudes' = BooleanIndex(peak_heights, mask).value
    /\ sel_status' = "peaks"
    /\ UNCHANGED <<records, frame_elec_inside, min_per_frame, num_frames,
                   first_minute, population_firing_vector, smoothed_vector,
                   peak_indices, selected_bounds, frame_times, sel_error>>
    /\ UNCHANGED <<core_vars, lfp_vars, gen_vars, map_vars>>

\* lines 147-149
SelectTop ==
    /\ sel_status = "peaks"
    /\ \E order \in ArgSorts(frame_amplitudes) :
           LET top == LastN(order, num_frames)
           IN  /\ peak_indices' = [k \in 1..Len(top) |-> top[k] - 1]
               /\ selected_bounds' =
                      [k \in 1..Len(top) |->
                          <<frame_indices[top[k]] - min_per_frame, frame_indices[top[k]]>>]
    /\ sel_status' = "selected"
    /\ UNCHANGED <<records, frame_elec_inside, min_per_frame, num_frames,
                   first_minute, population_firing_vector, smoothed_vector,
                   frame_indices, frame_amplitudes, frame_times, sel_error>>
    /\ UNCHANGED <<core_vars, lfp_vars, gen_vars, map_vars>>

\* lines 152-155: one iteration of the loop over frame_bounds, up to the
\* start and end time of the frame
FrameTimes ==
    /\ sel_status = "selected"
    /\ Len(frame_times) < Len(selected_bounds)
    /\ LET found == FrameStartTimes(selected_bounds[Len(frame_times) + 1])
       IN  IF Len(found) # 2
           THEN /\ sel_status' = "failed"
                /\ sel_error' = "ValueError: values to unpack"
                /\ UNCHANGED frame_times
           ELSE /\ frame_times' = Append(frame_times, <<found[1], found[2]>>)
                /\ UNCHANGED <<sel_status, sel_error>>
    /\ UNCHANGED <<records, frame_elec_inside, min_per_frame, num_frames,
                   first_minute, population_firing_vector, smoothed_vector,
                   frame_indices, frame_amplitudes, peak_indices, selected_bounds>>
    /\ UNCHANGED <<core_vars, lfp_vars, gen_vars, map_vars>>

\* ------------------------------------------------- LFPSpectrogram.make

\* the LFP is resampled to 2500 Hz (the docstring of LFPSpectrogram)
lfp_sampling_rate == 2500

\* the distance of two Fourier frequencies, 1 / window_size, in Hz: 2 Hz
\* for the window of 0.5 s of SpectrogramParameters.contents, and wider for
\* rows with a shorter window (0.1 s, 0.004 s)
FrequencySteps == {2, 10, 250}

\* signal.spectrogram(...)[0]: the frequencies 0, step, ... up to fs / 2
SpectrogramFrequencies(step) ==
    [k \in 1..((lfp_sampling_rate \div 2) \div step + 1) |-> (k - 1) * step]

\* SpectralBand.contents: lower_freq and upper_freq of a band
lower_freq(band_name) ==
    CASE band_name = "delta" -> 2
      [] band_name = "theta" -> 4
      [] band_name = "alpha" -> 8
      [] band_name = "beta" -> 13
      [] band_name = "gamma" -> 30
      [] band_name = "highgamma1" -> 70
      [] band_name = "highgamma2" -> 130

upper_freq(band_name) ==
    CASE band_name = "delta" -> 4
      [] band_name = "theta" -> 7
      [] band_name = "alpha" -> 12
      [] band_name = "beta" -> 30
      [] band_name = "gamma" -> 50
      [] band_name = "highgamma1" -> 110
      [] band_name = "highgamma2" -> 500

\* line 106: the frequencies of the band
freq_mask(band_name) ==
    { k \in DOMAIN frequency :
        frequency[k] >= lower_freq(band_name) /\ frequency[k] < upper_freq(band_name) }

StartSpectrogram ==
    /\ LFPSpectrogram = {}
    /\ ChannelSpectrogram = {}
    /\ ChannelPower = {}
    /\ frequency = <<>>
    /\ lfp_error = "none"
    /\ lfp_band = 1

IdleSpectrogram ==
    /\ StartSpectrogram
    /\ lfp_key = 0
    /\ lfp_status = "idle"

\* make without its line 82: the master row is never inserted
LfpInsertMaster_Skipped ==
    /\ lfp_status = "todo"
    /\ lfp_status' = "master"
    /\ UNCHANGED <<LFPSpectrogram, ChannelSpectrogram, ChannelPower, lfp_key,
                   frequency, lfp_error, lfp_band>>
    /\ UNCHANGED <<core_vars, sel_vars, gen_vars, map_vars>>

\* line 82
LfpInsertMaster ==
    /\ lfp_status = "todo"
    /\ LFPSpectrogram' = LFPSpectrogram \cup {lfp_key}
    /\ lfp_status' = "master"
    /\ UNCHANGED <<ChannelSpectrogram, ChannelPower, lfp_key, frequency,
                   lfp_error, lfp_band>>
    /\ UNCHANGED <<core_vars, sel_vars, gen_vars, map_vars>>

\* lines 84-101
LfpInsertSpectrogram ==
    /\ lfp_status = "master"
    /\ frequency' = SpectrogramFrequencies(lfp_key)
    /\ ChannelSpectrogram' = ChannelSpectrogram \cup
           {[key |-> lfp_key, frequency |-> SpectrogramFrequencies(lfp_key)]}
    /\ lfp_status' = "bands"
    /\ UNCHANGED <<LFPSpectrogram, ChannelPower, lfp_key, lfp_error, lfp_band>>
    /\ UNCHANGED <<core_vars, sel_vars, gen_vars, map_vars>>

\* lines 105-116: one iteration of the loop over the bands. The mean over
\* no frequency is NaN (numpy warns and goes on), and so are mean_power and
\* std_power; what insert1 does with a NaN is not in this repository: it
\* stores the row or it raises.
LfpBandStep ==
    /\ lfp_status = "bands"
    /\ lfp_band <= Len(SpectralBand)
    /\ LET band_name == SpectralBand[lfp_band]
           row == [key |-> lfp_key, band_name |-> band_name,
                   bins |-> freq_mask(band_name),
                   nan |-> freq_mask(band_name) = {}]
       IN  \/ /\ ChannelPower' = ChannelPower \cup {row}
              /\ lfp_band' = lfp_band + 1
              /\ UNCHANGED <<lfp_status, lfp_error>>
           \/ /\ row.nan
              /\ lfp_status' = "failed"
              /\ lfp_error' = "insert1: NaN rejected"
              /\ UNCHANGED <<ChannelPower, lfp_band>>
    /\ UNCHANGED <<LFPSpectrogram, ChannelSpectrogram, lfp_key, frequency>>
    /\ UNCHANGED <<core_vars, sel_vars, gen_vars, map_vars>>

\* the loop of line 105 is over
LfpReturn ==
    /\ lfp_status = "bands"
    /\ lfp_band > Len(SpectralBand)
    /\ lfp_status' = "done"
    /\ UNCHANGED <<LFPSpectrogram, ChannelSpectrogram, ChannelPower, lfp_key,
                   frequency, lfp_error, lfp_band>>
    /\ UNCHANGED <<core_vars, sel_vars, gen_vars, map_vars>>

\* ------------------------------------------------------ array_generator

\* arr[start_ind:end_ind + 1]: a slice that takes one element too many
Chunk_Inclusive(x, a, b) == PySlice(x, a, b + 1)

\* line 46: arr[start_ind:end_ind]
Chunk(x, a, b) == PySlice(x, a, b)

IdleGenerator ==
    /\ gen_arr = <<>>
    /\ chunk_size = 1
    /\ start_ind = 0
    /\ end_ind = 0
    /\ chunks = <<>>
    /\ gen_status = "idle"

\* start_ind where the loop condition is evaluated: line 40 on the first
\* next(), line 48 when the generator is resumed after its yield
ResumedStart == IF gen_status = "suspended" THEN start_ind + chunk_size ELSE 0

\* next() while the condition of line 42 holds: lines 44-46, up to the yield
GenYield ==
    /\ gen_status \in {"created", "suspended"}
    /\ end_ind < Len(gen_arr)
    /\ start_ind' = ResumedStart
    /\ end_ind' = end_ind + chunk_size
    /\ chunks' = Append(chunks, Chunk(gen_arr, ResumedStart, end_ind + chunk_size))
    /\ gen_status' = "suspended"
    /\ UNCHANGED <<gen_arr, chunk_size>>
    /\ UNCHANGED <<core_vars, sel_vars, lfp_vars, map_vars>>

\* next() when the condition of line 42 fails: the generator returns
GenStop ==
    /\ gen_status \in {"created", "suspended"}
    /\ ~(end_ind < Len(gen_arr))
    /\ start_ind' = ResumedStart
    /\ gen_status' = "exhausted"
    /\ UNCHANGED <<gen_arr, chunk_size, end_ind, chunks>>
    /\ UNCHANGED <<core_vars, sel_vars, lfp_vars, map_vars>>

\* ------------------------------------------ get_channel_to_electrode_map

\* line 10: the row number of each electrode
El2ROW == << 20, 5, 19, 6, 18, 7, 32, 9, 31, 10, 30, 11, 21, 4, 22, 3, 23, 2,
             25, 16, 26, 15, 27, 14, 28, 13, 24, 1, 29, 12, 17, 8 >>

\* the array without the shift to 0-based numbers
electrode_to_row_OneBased == El2ROW

\* line 13
electrode_to_row == [k \in 1..Len(El2ROW) |-> El2ROW[k] - 1]

\* a port_id is None or a string
None == [kind |-> "None", str |-> ""]
Str(text) == [kind |-> "str", str |-> text]

\* the characters of str(value) for value >= 0
DigitChars == << "0", "1", "2", "3", "4", "5", "6", "7", "8", "9" >>

RECURSIVE DecimalString(_)
DecimalString(value) ==
    IF value < 10 THEN << DigitChars[value + 1] >>
    ELSE Append(DecimalString(value \div 10), DigitChars[(value % 10) + 1])

\* f"{value:03}": str(value), filled with zeros from the left to 3 characters
RECURSIVE ZeroFill(_, _)
ZeroFill(chars, width) ==
    IF Len(chars) >= width THEN chars ELSE ZeroFill(<< "0" >> \o chars, width)

\* line 27: f"{port_id}-{value:03}", as its characters
PortChannelName(port, value) ==
    << port, "-" >> \o ZeroFill(DecimalString(value), 3)

\* line 31: str(value)
PlainChannelName(value) == DecimalString(value)

\* the code point of a character of a channel name
CodePoint(c) ==
    CASE c = "-" -> 45
      [] c \in {"A", "B", "C", "D"} -> 65 + (CHOOSE k \in 0..3 : << "A", "B", "C", "D" >>[k + 1] = c)
      [] OTHER -> 48 + (CHOOSE k \in 0..9 : DigitChars[k + 1] = c)

\* a < b for two Python strings
RECURSIVE StrLess(_, _)
StrLess(a, b) ==
    IF b = <<>> THEN FALSE
    ELSE IF a = <<>> THEN TRUE
    ELSE IF CodePoint(Head(a)) # CodePoint(Head(b))
         THEN CodePoint(Head(a)) < CodePoint(Head(b))
    ELSE StrLess(Tail(a), Tail(b))

\* sorted(names)
RECURSIVE InsertSorted(_, _)
InsertSorted(name, names) ==
    IF names = <<>> THEN << name >>
    ELSE IF StrLess(name, Head(names)) THEN << name >> \o names
    ELSE << Head(names) >> \o InsertSorted(name, Tail(names))

RECURSIVE sorted(_)
sorted(names) ==
    IF names = <<>> THEN <<>> ELSE InsertSorted(Head(names), sorted(Tail(names)))

\* d[name] = value for a dict kept as its items in insertion order
DictSet(d, name, value) ==
    IF \E i \in DOMAIN d : d[i].key = name
    THEN [i \in DOMAIN d |-> IF d[i].key = name THEN [key |-> name, value |-> value] ELSE d[i]]
    ELSE Append(d, [key |-> name, value |-> value])

\* d[name]
DictGet(d, name) == d[CHOOSE i \in DOMAIN d : d[i].key = name].value

\* the keys of d in iteration order
DictKeys(d) == [i \in DOMAIN d |-> d[i].key]

StartMap ==
    /\ channel_to_electrode_map = <<>>
    /\ map_index = 0
    /\ map_result = <<>>
    /\ map_error = "none"

IdleMap ==
    /\ StartMap
    /\ map_port_id = None
    /\ map_status = "idle"

\* lines 24-33: the branch on port_id
MapBegin ==
    /\ map_status = "called"
    /\ IF map_port_id.kind = "None" \/ map_port_id.str \in {"A", "B", "C", "D"}
       THEN /\ map_status' = "building"
            /\ UNCHANGED map_error
       ELSE /\ map_status' = "raised"
            /\ map_error' = "ValueError"
    /\ UNCHANGED <<map_port_id, channel_to_electrode_map, map_index, map_result>>
    /\ UNCHANGED <<core_vars, sel_vars, lfp_vars, gen_vars>>

\* lines 25-32: one item of the dict comprehension
MapStep ==
    /\ map_status = "building"
    /\ map_index < Len(electrode_to_row)
    /\ LET key == map_index
           value == At(electrode_to_row, map_index)
           name == IF map_port_id.kind = "None" THEN PlainChannelName(value)
                   ELSE PortChannelName(map_port_id.str, value)
       IN  channel_to_electrode_map' = DictSet(channel_to_electrode_map, name, key)
    /\ map_index' = map_index + 1
    /\ UNCHANGED <<map_port_id, map_result, map_status, map_error>>
    /\ UNCHANGED <<core_vars, sel_vars, lfp_vars, gen_vars>>

\* the comprehension is over
MapBuilt ==
    /\ map_status = "building"
    /\ map_index = Len(electrode_to_row)
    /\ map_status' = "built"
    /\ UNCHANGED <<map_port_id, channel_to_electrode_map, map_index, map_result, map_error>>
    /\ UNCHANGED <<core_vars, sel_vars, lfp_vars, gen_vars>>

\* lines 36-38: the dict rebuilt in the order of its sorted keys
MapReturn ==
    /\ map_status = "built"
    /\ LET names == sorted(DictKeys(channel_to_electrode_map))
       IN  map_result' = [i \in DOMAIN names |->
               [key |-> names[i], value |-> DictGet(channel_to_electrode_map, names[i])]]
    /\ map_status' = "returned"
    /\ UNCHANGED <<map_port_id, channel_to_electrode_map, map_index, map_error>>
    /\ UNCHANGED <<core_vars, sel_vars, lfp_vars, gen_vars>>

\* ------------------------------------------------------- specifications

StartATF ==
    /\ initial_probe = EphysSessionProbe
    /\ EphysSession = { SessionRow(r.experiment, r) : r \in EphysSessionProbe }
    /\ ActiveTimeFrames = {}
    /\ atf_status = [k \in AnalysisBoundaries |-> "todo"]
    /\ atf_error = [k \in AnalysisBoundaries |-> "none"]
    /\ make_key = NoKey
    /\ frame_bounds = <<>>
    /\ frame_pos = 0
    /\ probes_at_start = {}
    /\ session_inserts = {}

InitATF == EphysSessionProbe \in InitialProbeTables /\ StartATF

IdleATF == EphysSessionProbe = {} /\ StartATF

IdleCoherence == StartCoherence /\ num_elec_inside = [k \in CoherenceKeys |-> 0]

IdleBursts ==
    /\ StartBursts
    /\ population_firing_rate = <<>>
    /\ spikes = <<>>
    /\ elec_inside = 0

\* nothing else is computed
IdleMore == IdleSelector /\ IdleSpectrogram /\ IdleGenerator /\ IdleMap

InitCoherence ==
    /\ IdleATF
    /\ IdleBursts
    /\ IdleMore
    /\ StartCoherence
    /\ num_elec_inside \in [CoherenceKeys -> 0..MaxElectrodes]

\* ActiveTimeFrames is populated
Init == InitATF /\ IdleCoherence /\ IdleBursts /\ IdleMore

Next ==
    \E key \in AnalysisBoundaries :
        \/ Select(key)
        \/ FrameStep(key)
        \/ Return(key)

Spec == Init /\ [][Next]_vars

\* Coherence is populated
NextCoherence ==
    \E key \in CoherenceKeys :
        \/ CohBegin(key)
        \/ ConnectivityStep(key)
        \/ SynchronyStep(key)
        \/ CohInsertMaster(key)

SpecCoherence == InitCoherence /\ [][NextCoherence]_vars

\* PopulationBursts is populated for a frame, whatever its smoothed rate
InitBursts ==
    /\ IdleATF
    /\ IdleCoherence
    /\ IdleMore
    /\ StartBursts
    /\ population_firing_rate \in [1..SignalLength -> RateValues]
    /\ spikes = <<>>
    /\ elec_inside \in 0..MaxElecInside

NextBursts ==
    \/ BurstBegin
    \/ BurstStep
    \/ BurstInsert

SpecBursts == InitBursts /\ [][NextBursts]_vars

\* PopulationBursts is populated for a frame with spikes: the smoothed rate
\* is silent outside its bursts
InitRaster ==
    /\ IdleATF
    /\ IdleCoherence
    /\ IdleMore
    /\ StartBursts
    /\ population_firing_rate \in [1..SignalLength -> {0, 20}]
    /\ spikes \in SpikeChoices
    /\ elec_inside \in 0..MaxElecInside

SpecRaster == InitRaster /\ [][NextBursts]_vars

\* the rates of the minutes of an analysis boundary
VectorValues == {0, 1, 5}

\* the scenario of a single active minute: 60 minutes, a rate of 10 in
\* minute 30, frames of 10 minutes, one frame
ScenarioVector == [k \in 1..60 |-> IF k = 31 THEN 10 ELSE 0]

SelectorInputs ==
    ([1..VectorLength -> VectorValues] \X (1..MaxPerFrame) \X (0..MaxFrames))
        \cup {<<ScenarioVector, 10, 1>>}

\* the frames of a population firing vector are selected (lines 132-149)
InitSelector ==
    /\ IdleATF
    /\ IdleCoherence
    /\ IdleBursts
    /\ IdleSpectrogram
    /\ IdleGenerator
    /\ IdleMap
    /\ StartSelector
    /\ records = {}
    /\ frame_elec_inside = 0
    /\ \E input \in SelectorInputs :
           /\ population_firing_vector = input[1]
           /\ min_per_frame = input[2]
           /\ num_frames = input[3]
    /\ sel_status = "vector"

NextSelector ==
    \/ Smooth
    \/ FindFrames
    \/ SelectTop

SpecSelector == InitSelector /\ [][NextSelector]_vars

\* the start times of the rows: on the minute or half a minute later
StartTimes ==
    { minute * SecondsPerMinute + offset :
          minute \in 0..(TimelineMinutes - 1), offset \in {0, 30} }

AllRecords ==
    [start_time : StartTimes, electrode : 0..(MaxElecInside - 1), spike_rate : {1, 5}]

\* one row per channel and start time
UniqueRows(rs) ==
    \A r, q \in rs :
        r.start_time = q.start_time /\ r.electrode = q.electrode => r = q

RECURSIVE RecordSets(_)
RecordSets(n) ==
    IF n = 0 THEN {{}}
    ELSE { rs \cup {r} : rs \in RecordSets(n - 1), r \in AllRecords }

\* the frames of the fetched rows are selected and timed (lines 112-155)
InitTimeline ==
    /\ IdleATF
    /\ IdleCoherence
    /\ IdleBursts
    /\ IdleSpectrogram
    /\ IdleGenerator
    /\ IdleMap
    /\ StartSelector
    /\ records \in { rs \in RecordSets(MaxRecords) \cup {{}} : UniqueRows(rs) }
    /\ frame_elec_inside \in 1..MaxElecInside
    /\ min_per_frame \in 1..(MaxPerFrame - 1)
    /\ num_frames \in 1..MaxFrames
    /\ population_firing_vector = <<>>
    /\ sel_status = "records"

NextTimeline ==
    \/ BuildVector
    \/ Smooth
    \/ FindFrames
    \/ SelectTop
    \/ FrameTimes

SpecTimeline == InitTimeline /\ [][NextTimeline]_vars

\* Coherence and LFPSpectrogram are populated, the keys of Coherence one
\* after the other and LFPSpectrogram for one key, whose number stands for
\* its spectrogram parameters
InitMasterPart ==
    /\ IdleATF
    /\ IdleBursts
    /\ IdleSelector
    /\ IdleGenerator
    /\ IdleMap
    /\ StartCoherence
    /\ num_elec_inside \in [CoherenceKeys -> 0..MaxElectrodes]
    /\ StartSpectrogram
    /\ lfp_key \in FrequencySteps
    /\ lfp_status = "todo"

NextSpectrogram ==
    \/ LfpInsertMaster
    \/ LfpInsertSpectrogram
    \/ LfpBandStep
    \/ LfpReturn

NextMasterPart == NextCoherence \/ NextSpectrogram

SpecMasterPart == InitMasterPart /\ [][NextMasterPart]_vars

\* array_generator is run to its end over an array and a chunk size
ArrayValues == {0, 1, 2}

Arrays == UNION { [1..n -> ArrayValues] : n \in 0..MaxArrayLength }

InitGenerator ==
    /\ IdleATF
    /\ IdleCoherence
    /\ IdleBursts
    /\ IdleSelector
    /\ IdleSpectrogram
    /\ IdleMap
    /\ gen_arr \in Arrays
    /\ chunk_size \in 1..MaxChunkSize
    /\ start_ind = 0
    /\ end_ind = 0
    /\ chunks = <<>>
    /\ gen_status = "created"

NextGenerator == GenYield \/ GenStop

SpecGenerator == InitGenerator /\ [][NextGenerator]_vars

\* get_channel_to_electrode_map is called with a port_id
PortIds == { None, Str("A"), Str("B"), Str("C"), Str("D"),
             Str("E"), Str("a"), Str("None"), Str("") }

InitMap ==
    /\ IdleATF
    /\ IdleCoherence
    /\ IdleBursts
    /\ IdleSelector
    /\ IdleSpectrogram
    /\ IdleGenerator
    /\ StartMap
    /\ map_port_id \in PortIds
    /\ map_status = "called"

NextMap == MapBegin \/ MapStep \/ MapBuilt \/ MapReturn

SpecMap == InitMap /\ [][NextMap]_vars

\* ------------------------------------------------ ActiveTimeFrames: claims

\* the latest call of make has ended
Finished == make_key # NoKey /\ atf_status[make_key] \in {"done", "failed"}

FramesOf(key) == { r \in ActiveTimeFrames : r.key = key }

AllObserved(fb) == \A i \in DOMAIN fb : fb[i].observed

CohEnded(key) == coh_status[key] \in {"done", "failed"}

\* the electrode pairs of the Connectivity records of a key
ConnectivityPairs(key) ==
    { <<r.electrode_A, r.electrode_B>> : r \in { x \in Connectivity : x.key = key } }

\* a record's frequency vector holds exactly the Welch frequencies
\* <= max_freq, and its coherence vector the values at those frequencies
RecordAligned(f, coherence) ==
    /\ Len(f) = Len(coherence)
    /\ f = SelectSeq(WelchFrequencies, LAMBDA x : x <= max_freq)
    /\ \A i \in 1..Len(f) : i <= Len(coherence) => WelchFrequencies[coherence[i]] = f[i]

\* C5: for a key with N valid electrodes, the Connectivity records produced
\* are exactly the pairs (A, B) with 0 <= A < B < N (a pair inserted twice
\* would end make with a DuplicateError), and for N < 2 the connectivity
\* loop ends with no record and no error.
C5_ConnectivityPairsExact ==
    \A key \in CoherenceKeys :
        CohEnded(key) =>
            /\ ConnectivityPairs(key) =
                   { p \in (0..(num_elec_inside[key] - 1)) \X (0..(num_elec_inside[key] - 1)) :
                       p[1] < p[2] }
            /\ coh_error[key] # "DuplicateError"
            /\ num_elec_inside[key] < 2 =>
                   ~(coh_status[key] = "failed" /\ key = coh_key /\ coh_loop = "connectivity")

\* C6: every Connectivity and Synchrony record holds the Welch frequencies
\* <= max_freq and the coherence values at those frequencies, in vectors of
\* equal length, and the truncation never fails on a mask of another length
\* than the array it indexes.
C6_TruncationAligned ==
    /\ \A r \in Connectivity : RecordAligned(r.f, r.coherence)
    /\ \A r \in Synchrony : RecordAligned(r.f, r.synchrony)
    /\ \A key \in CoherenceKeys : coh_error[key] # "IndexError: boolean index did not match"

\* ------------------------------------------------ PopulationBursts: claims

\* the smoothed rate at `offset` samples from the peak at index
RateAround(index, offset) == At(population_firing_rate, index + offset)

\* the sample at `offset` from the peak is at or above a tenth of the peak
TenthOfPeak(index, offset) == 10 * RateAround(index, offset) >= RateAround(index, 0)

\* the samples next to the peak, going outward in direction dir (-1 or 1),
\* that are at or above a tenth of the peak without a break, at most cap
RunLength(index, dir, cap) ==
    CHOOSE n \in 0..cap :
        /\ \A j \in 1..n : TenthOfPeak(index, dir * j)
        /\ n = cap \/ ~TenthOfPeak(index, dir * (n + 1))

\* the first sample, going outward in direction dir, below a tenth of the
\* peak, or edge if there is none before it
FirstBelow(index, dir, edge) ==
    CHOOSE n \in 1..edge :
        /\ \A j \in 1..(n - 1) : TenthOfPeak(index, dir * j)
        /\ n = edge \/ ~TenthOfPeak(index, dir * n)

\* C7 as stated: for every retained burst the recorded pair (left, right)
\* has left <= 0 <= right, and each offset is the position of the first
\* sample, walking outward from the peak, whose rate is below 0.1 x
\* peak_height, or the edge of the extraction window (its first sample on
\* the left, its last sample on the right) if the rate never drops.
C7_OffsetsAtFirstSampleBelow ==
    \A k \in DOMAIN burst_windows :
        /\ burst_windows[k][1] <= 0
        /\ 0 <= burst_windows[k][2]
        /\ -burst_windows[k][1] = FirstBelow(burst_indices[k], -1, num_burst_samples)
        /\ burst_windows[k][2] = FirstBelow(burst_indices[k], 1, num_burst_samples - 1)

\* C7: for every retained burst the recorded pair (left, right) has
\* left <= 0 <= right, and each offset is the length of the unbroken run of
\* samples next to the peak whose rate is at or above 0.1 x peak_height (so
\* the last sample of that run, one short of the first sample below); the
\* run is cut at num_burst_samples - 1 samples on the left and at
\* num_burst_samples - 2 on the right.
C7_OffsetsAtLastSampleAbove ==
    \A k \in DOMAIN burst_windows :
        /\ burst_windows[k][1] <= 0
        /\ 0 <= burst_windows[k][2]
        /\ -burst_windows[k][1] = RunLength(burst_indices[k], -1, num_burst_samples - 1)
        /\ burst_windows[k][2] = RunLength(burst_indices[k], 1, num_burst_samples - 2)

\* a row is stored with a burst that extends to both sides of its peak
C7_Witness ==
    \E row \in PopulationBursts : \E k \in DOMAIN row.burst_bounds :
        /\ row.burst_bounds[k][1] < 0
        /\ row.burst_bounds[k][2] > 0

\* C8: the spikes in the window of the k-th burst are written into raster
\* row k and no other row, however long the boundary walk of that burst
\* was, and the row index is never outside 0..B-1.
C8_RasterRowIsBurst ==
    \A w \in raster_writes :
        /\ w.row = w.burst
        /\ w.row \in 0..(Len(burst_indices) - 1)

\* the offsets of the spikes of electrode e in the window of the burst at
\* index: floor(t - (index - num_burst_samples)) for a spike at t ms
SpikeOffsets(index, e) ==
    { o \in 0..(2 * num_burst_samples - 1) :
        \E k \in DOMAIN spikes :
            /\ spikes[k].electrode = e
            /\ (index - num_burst_samples) * samples_per_ms <= spikes[k].time
            /\ spikes[k].time <= (index + num_burst_samples) * samples_per_ms
            /\ (index - num_burst_samples + o) * samples_per_ms <= spikes[k].time
            /\ spikes[k].time < (index - num_burst_samples + o + 1) * samples_per_ms }

\* C9: for every burst and every electrode inside the organoid, the raster
\* cells set are exactly the offsets floor(t - (p - num_burst_samples)) of
\* that electrode's spikes inside the window; the per-electrode mask fits
\* the spike-time array also when there are spikes from electrodes outside,
\* and every offset written is in 0..2 * num_burst_samples - 1.
C9_RasterContent ==
    /\ burst_error # "IndexError: boolean index did not match"
    /\ \A w \in raster_writes :
           /\ w.offsets = SpikeOffsets(burst_indices[w.burst + 1], w.electrode)
           /\ w.offsets \subseteq 0..(2 * num_burst_samples - 1)

\* C10: every kept burst peak has num_burst_samples <= p <= L -
\* num_burst_samples, its height is kept with it, and the waveform taken
\* for a burst has 2 * num_burst_samples samples, all inside the signal.
C10_BoundaryBurstsDropped ==
    LET L == Len(population_firing_rate)
    IN  /\ Len(burst_peak_heights) = Len(burst_indices)
        /\ \A k \in DOMAIN burst_indices :
               /\ num_burst_samples <= burst_indices[k]
               /\ burst_indices[k] <= L - num_burst_samples
               /\ burst_peak_heights[k] = RateAround(burst_indices[k], 0)
        /\ burst_pos > 0 =>
               LET p == burst_indices[burst_pos]
               IN  /\ Len(waveform) = 2 * num_burst_samples
                   /\ 0 <= p - num_burst_samples
                   /\ p + num_burst_samples <= L
                   /\ \A j \in 1..Len(waveform) :
                          waveform[j] = RateAround(p, j - 1 - num_burst_samples)

\* a peak near the end of the signal was dropped, another was kept and its
\* waveform was taken
C10_Witness ==
    /\ burst_pos > 0
    /\ Len(DetectedPeaks) > Len(burst_indices)
    /\ \E k \in DOMAIN DetectedPeaks :
           DetectedPeaks[k] > Len(population_firing_rate) - num_burst_samples

\* --------------------------------------------- frame selection: claims

\* the peaks of x: the middle (rounded down) of every run of equal samples
\* that is higher than the sample before it and the sample after it
PeakSet(x) ==
    { q \in 1..(Len(x) - 2) :
        \E l \in 1..q : \E r \in q..(Len(x) - 2) :
            /\ q = (l + r) \div 2
            /\ \A j \in l..r : At(x, j) = At(x, l)
            /\ At(x, l - 1) < At(x, l)
            /\ At(x, r + 1) < At(x, r) }

\* x has exactly num_frames peaks, all higher than 0, at least
\* min_per_frame apart and none before index min_per_frame
WellSeparatedPeaks(x) ==
    /\ Cardinality(PeakSet(x)) = num_frames
    /\ \A q \in PeakSet(x) : At(x, q) > 0 /\ q >= min_per_frame
    /\ \A q, r \in PeakSet(x) : q < r => r - q >= min_per_frame

\* the windows selected are one window [q - min_per_frame, q] per peak of x
OneWindowPerPeak(x) ==
    /\ Len(selected_bounds) = Cardinality(PeakSet(x))
    /\ { selected_bounds[k] : k \in DOMAIN selected_bounds } =
           { <<q - min_per_frame, q>> : q \in PeakSet(x) }

\* C11 as stated: for a population-rate vector with exactly num_frames
\* peaks of height > 0, at least frame_length apart and none before index
\* frame_length, the selector returns one window [peak - frame_length, peak]
\* per peak; for 60 samples with one peak of 10 at index 30, frame_length 10
\* and num_frames 1 it returns the one window [20, 30].
C11_WindowsOfVectorPeaks ==
    sel_status = "selected" =>
        /\ WellSeparatedPeaks(population_firing_vector) =>
               OneWindowPerPeak(population_firing_vector)
        /\ population_firing_vector = ScenarioVector =>
               selected_bounds = << <<20, 30>> >>

\* C11: for a smoothed population-rate vector (the trailing mean over
\* frame_length minutes) with exactly num_frames peaks of height > 0, at
\* least frame_length apart and none before index frame_length, the
\* selector returns one window [peak - frame_length, peak] per peak of the
\* smoothed vector, in the order of increasing peak height; for 60 samples
\* with a rate of 10 in minute 30 only, frame_length 10 and num_frames 1, the
\* smoothed vector has its peak at index 34 and the one window is [24, 34].
C11_WindowsOfSmoothedPeaks ==
    sel_status = "selected" =>
        /\ WellSeparatedPeaks(smoothed_vector) =>
               /\ OneWindowPerPeak(smoothed_vector)
               /\ \A k \in 1..(Len(selected_bounds) - 1) :
                      At(smoothed_vector, selected_bounds[k][2]) <=
                          At(smoothed_vector, selected_bounds[k + 1][2])
        /\ population_firing_vector = ScenarioVector =>
               selected_bounds = << <<24, 34>> >>

\* two well separated peaks of different heights were selected, and their
\* windows are not those of the peaks of the vector before smoothing
C11_Witness ==
    /\ sel_status = "selected"
    /\ num_frames = 2
    /\ WellSeparatedPeaks(smoothed_vector)
    /\ Len(selected_bounds) = 2
    /\ At(smoothed_vector, selected_bounds[1][2]) < At(smoothed_vector, selected_bounds[2][2])
    /\ WellSeparatedPeaks(population_firing_vector)
    /\ ~OneWindowPerPeak(population_firing_vector)

\* C12: the selector selects min(num_frames, number of candidates) peaks,
\* no candidate left out has a strictly larger amplitude than a selected
\* one, and the selected peaks are in the order of decreasing amplitude.
C12_TopKDescending ==
    sel_status = "selected" =>
        LET chosen == { peak_indices[k] + 1 : k \in DOMAIN peak_indices }
        IN  /\ Len(peak_indices) = Min(num_frames, Len(frame_indices))
            /\ \A c \in DOMAIN frame_indices \ chosen : \A d \in chosen :
                   frame_amplitudes[c] <= frame_amplitudes[d]
            /\ \A k \in 1..(Len(peak_indices) - 1) :
                   frame_amplitudes[peak_indices[k] + 1] >=
                       frame_amplitudes[peak_indices[k + 1] + 1]

\* C14: the minute ranges [p - frame_length, p) of any two frames selected
\* for one key are disjoint.
C14_FramesDisjoint ==
    \A i, j \in DOMAIN selected_bounds :
        i # j => \/ selected_bounds[i][2] <= selected_bounds[j][1]
                 \/ selected_bounds[j][2] <= selected_bounds[i][1]

\* two frames of more than one minute were selected, the one starting in
\* the minute where the other ends
C14_Witness ==
    /\ sel_status = "selected"
    /\ min_per_frame > 1
    /\ num_frames = 2
    /\ \E i, j \in DOMAIN selected_bounds :
           selected_bounds[i][2] = selected_bounds[j][1]

\* C17: every peak kept by the selector has index p >= frame_length, the
\* amplitude at position k is that of the peak at position k, and every
\* window has 0 <= p - frame_length and p <= the last index of the timeline.
C17_EarlyPeaksDropped ==
    /\ Len(frame_amplitudes) = Len(frame_indices)
    /\ \A k \in DOMAIN frame_indices :
           /\ frame_indices[k] >= min_per_frame
           /\ frame_amplitudes[k] = At(smoothed_vector, frame_indices[k])
    /\ \A k \in DOMAIN selected_bounds :
           /\ 0 <= selected_bounds[k][1]
           /\ selected_bounds[k][2] = selected_bounds[k][1] + min_per_frame
           /\ selected_bounds[k][2] <= Len(population_firing_vector) - 1

\* a peak before index frame_length was dropped, a later and lower peak was
\* kept and its window selected
C17_Witness ==
    /\ sel_status = "selected"
    /\ Len(selected_bounds) >= 1
    /\ \E q \in PeakSet(smoothed_vector) :
           /\ q < min_per_frame
           /\ \A k \in DOMAIN frame_indices :
                  /\ frame_indices[k] # q
                  /\ frame_amplitudes[k] < At(smoothed_vector, q)

\* the start times of the rows whose minute is minute number m of the
\* timeline
StartTimesIn(m) ==
    { r.start_time : r \in { r \in records : MinuteOf(r.start_time) = first_minute + m } }

\* C13: for every selected window [p - frame_length, p] the start_time is
\* the least and the end_time the greatest observed start time whose minute
\* is anywhere in the window, also when the minute at p - frame_length or
\* at p has no row or has more than one start time; computing them never
\* fails.
C13_FrameTimesMinMax ==
    /\ sel_error # "ValueError: values to unpack"
    /\ \A k \in DOMAIN frame_times :
           LET observed == UNION { StartTimesIn(m) :
                                     m \in selected_bounds[k][1]..selected_bounds[k][2] }
           IN  /\ \A t \in observed : frame_times[k][1] <= t /\ t <= frame_times[k][2]
               /\ frame_times[k][1] \in observed
               /\ frame_times[k][2] \in observed

\* C15: the timeline has one entry per minute from the earliest to the
\* latest observed minute, and before smoothing the entry of a minute is the
\* sum of the spike rates of all rows of that minute from electrodes inside
\* the organoid, whatever their start times within the minute, and zero for
\* a minute with no row.
C15_VectorSumsEachMinute ==
    sel_status \notin {"records", "idle", "failed"} /\ records # {} =>
        LET minutes == { MinuteOf(r.start_time) : r \in records }
            earliest == CHOOSE a \in minutes : \A b \in minutes : a <= b
            latest == CHOOSE a \in minutes : \A b \in minutes : a >= b
        IN  /\ Len(population_firing_vector) = latest - earliest + 1
            /\ \A m \in 0..(latest - earliest) :
                   At(population_firing_vector, m) =
                       SumRates({ r \in records :
                                    /\ MinuteOf(r.start_time) = earliest + m
                                    /\ r.electrode < frame_elec_inside })

\* ------------------------------------------- master and part tables: claims

CeilDiv(n, c) == (n + c - 1) \div c

RECURSIVE Concat(_)
Concat(seqs) == IF seqs = <<>> THEN <<>> ELSE Head(seqs) \o Concat(Tail(seqs))

\* C19: array_generator partitions its input: for an array of length
\* n >= 0 and a chunk_size >= 1 it ends after yielding exactly
\* ceil(n / chunk_size) chunks, every chunk but the last has chunk_size
\* elements and the last has between 1 and chunk_size, and the chunks
\* concatenated in yield order are the input array.
C19_GeneratorPartitions ==
    LET n == Len(gen_arr)
        count == CeilDiv(n, chunk_size)
    IN  gen_status \in {"created", "suspended", "exhausted"} =>
          /\ Len(chunks) <= count
          /\ \A k \in 1..Len(chunks) :
                /\ k < count => Len(chunks[k]) = chunk_size
                /\ Len(chunks[k]) \in 1..chunk_size
          /\ Concat(chunks) = SubSeq(gen_arr, 1, Min(Len(chunks) * chunk_size, n))
          /\ Len(chunks) = count => ~(end_ind < n)
          /\ gen_status = "exhausted" =>
                /\ Len(chunks) = count
                /\ Concat(chunks) = gen_arr

\* the generator has ended after several chunks, the last one short
C19_Witness ==
    /\ gen_status = "exhausted"
    /\ Len(chunks) >= 2
    /\ Len(chunks[Len(chunks)]) < chunk_size
    /\ Len(chunks[1]) = chunk_size

\* the channel name of row number value < 100, written out
ExpectedName(port, value) ==
    LET tens == DigitChars[(value \div 10) + 1]
        units == DigitChars[(value % 10) + 1]
    IN  IF port.kind = "None"
        THEN IF value < 10 THEN << units >> ELSE << tens, units >>
        ELSE << port.str, "-", "0", tens, units >>

ValidPort(port) == port.kind = "None" \/ port.str \in {"A", "B", "C", "D"}

\* C20: get_channel_to_electrode_map returns a bijection: for port_id A, B,
\* C, D or None the result has exactly 32 distinct channel keys mapped
\* one-to-one onto the electrodes 0..31, electrode e under the channel named
\* after El2ROW[e] - 1, iterated in sorted key order; for any other port_id
\* it raises ValueError and returns no mapping.
C20_ChannelMapBijection ==
    /\ map_status = "returned" =>
          /\ ValidPort(map_port_id)
          /\ Len(map_result) = 32
          /\ \A i, j \in DOMAIN map_result :
                i # j => /\ map_result[i].key # map_result[j].key
                         /\ map_result[i].value # map_result[j].value
          /\ { map_result[i].value : i \in DOMAIN map_result } = 0..31
          /\ \A e \in 0..31 : \E i \in DOMAIN map_result :
                /\ map_result[i].value = e
                /\ map_result[i].key = ExpectedName(map_port_id, El2ROW[e + 1] - 1)
          /\ \A i, j \in DOMAIN map_result :
                i < j => StrLess(map_result[i].key, map_result[j].key)
    /\ map_status = "raised" =>
          /\ ~ValidPort(map_port_id)
          /\ map_error = "ValueError"
    /\ map_status \in {"called", "building", "built", "raised"} => map_result = <<>>
    /\ map_status \in {"building", "built"} => ValidPort(map_port_id)

\* the map of port A has been returned; its first channel is A-000, of the
\* electrode in row 1
C20_Witness ==
    /\ map_status = "returned"
    /\ map_port_id = Str("A")
    /\ map_result[1] = [key |-> << "A", "-", "0", "0", "0" >>, value |-> 27]

====
